---- MODULE Spec2Model ----
(***************************************************************************)
(* StockTradingEnvironment (src/env/StockTradingEnvironment.py): a gym     *)
(* environment that trades one stock.  reset() re-creates the account,     *)
(* step(action) executes a buy / sell / hold at a price drawn inside the   *)
(* current row of the price series, computes reward and done, and builds   *)
(* the observation it is to return with them.                              *)
(*                                                                         *)
(* Calls.  The model is the environment object driven by any caller: each  *)
(* action is one call of reset() or step(), with everything it does to the *)
(* attributes.  A call that ends in an exception keeps the assignments it  *)
(* made before raising, and `raised` records the exception; the caller may *)
(* go on calling.  step() before the first reset() raises AttributeError   *)
(* at its first attribute read and changes nothing, so it is no action.    *)
(*                                                                         *)
(* Inputs.  The price series hold strictly positive prices.               *)
(*                                                                         *)
(* Numbers.  The environment computes with numpy float64 values.  The      *)
(* model computes with exact rationals <<n, d>> in lowest terms, d > 0,    *)
(* and keeps the IEEE results of a division by zero, which numpy returns   *)
(* instead of raising: <<0,0>> is nan, <<1,0>> is inf, <<-1,0>> is -inf.   *)
(* Rounding of float64 is not modelled.                                    *)
(***************************************************************************)
EXTENDS Integers, Sequences, FiniteSets, TLC

VARIABLES
    df,                 \* self.df: the price series given to __init__
    balance,            \* self.balance
    net_worth,          \* self.net_worth
    max_net_worth,      \* self.max_net_worth
    shares_held,        \* self.shares_held
    cost_basis,         \* self.cost_basis
    total_shares_sold,  \* self.total_shares_sold
    total_sales_value,  \* self.total_sales_value
    current_step,       \* self.current_step
    op,                 \* the last call made: "init", "reset" or "step"
    action,             \* the argument of the last call, when it was a step()
    current_price,      \* the local current_price of that step's _take_action
    reward,             \* the local reward of that step() (line 111)
    done,               \* the local done of the last step() so far (line 112)
    raised,             \* how the last call ended: "none" (it returned) or
                        \* the exception it raised
    steps               \* number of step() calls since the last reset()

vars == <<df, balance, net_worth, max_net_worth, shares_held, cost_basis,
          total_shares_sold, total_sales_value, current_step, op, action,
          current_price, reward, done, raised, steps>>

-----------------------------------------------------------------------------
(* Bounds of the model *)

\* step() calls explored after each reset()
MaxEpisodeSteps == 3

-----------------------------------------------------------------------------
(* Program constants *)

MAX_SHARE_PRICE == 5000
MAX_STEPS == 20000
INITIAL_ACCOUNT_BALANCE == 10000

-----------------------------------------------------------------------------
(* Exact rational arithmetic standing for the float arithmetic *)

Abs(n) == IF n < 0 THEN 0 - n ELSE n

Sign(n) == IF n < 0 THEN 0 - 1 ELSE IF n > 0 THEN 1 ELSE 0

RECURSIVE GCD(_, _)
GCD(a, b) == IF b = 0 THEN a ELSE GCD(b, a % b)

\* n/d in lowest terms; a zero denominator gives nan, inf or -inf
Norm(n, d) ==
    IF d = 0 THEN <<Sign(n), 0>>
    ELSE LET g == GCD(Abs(n), Abs(d))
             s == Sign(d)
         IN  <<(s * n) \div g, (s * d) \div g>>

Num(n) == <<n, 1>>

Zero == Num(0)

One == Num(1)

Two == Num(2)

NaN == <<0, 0>>

\* an attribute that does not exist yet (before the first reset())
Absent == <<0, 0 - 1>>

\* x + y, over the least common denominator
Add(x, y) ==
    IF x[2] = 0 \/ y[2] = 0 THEN Norm(x[1] * y[2] + y[1] * x[2], 0)
    ELSE LET g == GCD(x[2], y[2])
         IN  Norm(x[1] * (y[2] \div g) + y[1] * (x[2] \div g),
                  (x[2] \div g) * y[2])

Neg(x) == <<0 - x[1], x[2]>>

Sub(x, y) == Add(x, Neg(y))

\* x * y, cancelling across before multiplying
Mul(x, y) ==
    IF x[2] = 0 \/ y[2] = 0 \/ x[1] = 0 \/ y[1] = 0
    THEN Norm(x[1] * y[1], x[2] * y[2])
    ELSE LET g1 == GCD(Abs(x[1]), y[2])
             g2 == GCD(Abs(y[1]), x[2])
         IN  Norm((x[1] \div g1) * (y[1] \div g2),
                  (x[2] \div g2) * (y[2] \div g1))

\* x / y as numpy float64 divides: x/0 is nan, inf or -inf, never an exception
Div(x, y) ==
    IF y[1] = 0 THEN <<Sign(x[1]), 0>>
    ELSE Mul(x, <<Sign(y[1]) * y[2], Abs(y[1])>>)

\* comparisons; every comparison with nan is false
Lt(x, y) == x # NaN /\ y # NaN /\ Sub(x, y)[1] < 0

Gt(x, y) == Lt(y, x)

Le(x, y) == x # NaN /\ y # NaN /\ Sub(x, y)[1] <= 0

Ge(x, y) == Le(y, x)

-----------------------------------------------------------------------------
(* Inputs *)

Row(o, h, l, c, v) == [Open |-> o, High |-> h, Low |-> l, Close |-> c, Volume |-> v]

\* a series of 8 rows: current_step ranges over 0..2
DF8 == << Row(100, 100, 100, 100, 1000),
          Row(80, 120, 80, 120, 20000),
          Row(100, 100, 60, 60, 3000),
          Row(60, 90, 60, 90, 1000),
          Row(90, 90, 80, 80, 1000),
          Row(80, 100, 80, 100, 1000),
          Row(100, 110, 100, 110, 1000),
          Row(110, 120, 110, 120, 1000) >>

\* a series of exactly 6 rows: current_step is always 0
DF6 == << Row(200, 200, 100, 100, 500),
          Row(100, 100, 100, 100, 500),
          Row(100, 100, 100, 100, 500),
          Row(100, 100, 100, 100, 500),
          Row(100, 100, 100, 100, 500),
          Row(100, 100, 100, 100, 500) >>

DataFrames == {DF8, DF6}

\* len(self.df.loc[:,'Open'].values)
NRows(d) == Len(d)

\* self.df.loc[i, col]: rows are indexed from 0
Loc(d, i) == d[i + 1]

\* random.uniform(a, b) = a + (b-a) * random(): the two ends and the middle
Uniform(a, b) == {Num(a), Norm(a + b, 2), Num(b)}

\* action types in the declared Box [0,3]: buy, buy, sell, sell, hold, hold
ActionTypes == {Zero, Norm(1, 2), One, Norm(3, 2), Two, Num(3)}

\* amounts in the declared Box [0,1]
Amounts == {Zero, Norm(1, 2), One}

ActionSpace == {<<t, f>> : t \in ActionTypes, f \in Amounts}

\* step() does not check the action against action_space: amounts that
\* include one above the Box's upper bound
UncheckedAmounts == {Zero, One, Two}

UncheckedActions == {<<t, f>> : t \in ActionTypes, f \in UncheckedAmounts}

-----------------------------------------------------------------------------
(* _take_action, lines 118-149 *)

\* an off-by-one comparison: if action_type <= 1
IsBuyInclusive(action_type) == Le(action_type, One)

\* line 125: if action_type < 1
IsBuy(action_type) == Lt(action_type, One)

\* an off-by-one comparison: elif action_type <= 2
IsSellInclusive(action_type) == ~IsBuy(action_type) /\ Le(action_type, Two)

\* line 135: elif action_type < 2
IsSell(action_type) == ~IsBuy(action_type) /\ Lt(action_type, Two)

\* the initial balance in the place of self.balance
SharesBoughtOfInitial(bal, price, amount) ==
    Mul(Div(Num(INITIAL_ACCOUNT_BALANCE), price), amount)

\* the amount left out: shares_bought = total_possible
SharesBoughtAll(bal, price, amount) == Div(bal, price)

\* lines 127-128
SharesBought(bal, price, amount) == Mul(Div(bal, price), amount)

\* the price left out of the cost
AdditionalCostUnpriced(shares_bought, price) == shares_bought

\* line 130
AdditionalCost(shares_bought, price) == Mul(shares_bought, price)

\* the price of the last purchase instead of the weighted average
BuyCostBasisLast(cb, sh, shares_bought, additional_cost) ==
    Div(additional_cost, shares_bought)

\* lines 129, 133
BuyCostBasis(cb, sh, shares_bought, additional_cost) ==
    Div(Add(Mul(cb, sh), additional_cost), Add(sh, shares_bought))

\* the amount left out: the whole position is sold
SharesSoldAll(sh, amount) == sh

\* line 137
SharesSold(sh, amount) == Mul(sh, amount)

\* the profit of line 161 in the place of the net worth
NetWorthProfit(bal, sh, price) ==
    Sub(Add(bal, Mul(sh, price)), Num(INITIAL_ACCOUNT_BALANCE))

\* the shares left out of the net worth
NetWorthCashOnly(bal, sh, price) == bal

\* line 143
NetWorth(bal, sh, price) == Add(bal, Mul(sh, price))

\* the maximum overwritten by every step
MaxNetWorthLast(nw, mx) == nw

\* the comparison turned around: a running minimum
MaxNetWorthInverted(nw, mx) == IF Lt(nw, mx) THEN nw ELSE mx

\* lines 145-146
MaxNetWorth(nw, mx) == IF Gt(nw, mx) THEN nw ELSE mx

\* the reset of lines 148-149 left out
KeepCostBasis(sh, cb) == cb

\* lines 148-149
ResetCostBasis(sh, cb) == IF sh = Zero THEN Zero ELSE cb

\* the account after the branch of lines 125-141
Branch(a, price) ==
    LET action_type == a[1]
        amount == a[2]
    IN  IF IsBuy(action_type) THEN
            LET shares_bought == SharesBought(balance, price, amount)
                additional_cost == AdditionalCost(shares_bought, price)
            IN  [balance |-> Sub(balance, additional_cost),
                 cost_basis |-> BuyCostBasis(cost_basis, shares_held,
                                             shares_bought, additional_cost),
                 shares_held |-> Add(shares_held, shares_bought),
                 total_shares_sold |-> total_shares_sold,
                 total_sales_value |-> total_sales_value]
        ELSE IF IsSell(action_type) THEN
            LET shares_sold == SharesSold(shares_held, amount)
            IN  [balance |-> Add(balance, Mul(shares_sold, price)),
                 cost_basis |-> cost_basis,
                 shares_held |-> Sub(shares_held, shares_sold),
                 total_shares_sold |-> Add(total_shares_sold, shares_sold),
                 total_sales_value |-> Add(total_sales_value,
                                           Mul(shares_sold, price))]
        ELSE
            [balance |-> balance,
             cost_basis |-> cost_basis,
             shares_held |-> shares_held,
             total_shares_sold |-> total_shares_sold,
             total_sales_value |-> total_sales_value]

-----------------------------------------------------------------------------
(* _next_observation, lines 77-97 *)

Columns == {"Open", "High", "Low", "Close", "Volume"}

\* type(self.df.loc[step:step+5, col].values / MAX_SHARE_PRICE)
WindowType(col) == "ndarray"

\* whether hash(v) succeeds for a value of type t, which a set display asks of
\* each element: numpy.ndarray has no __hash__
Hashable(t) == t # "ndarray"

\* self.df.loc[step:step+5, col].values / MAX_SHARE_PRICE: the 6 scaled
\* values (a .loc slice includes its last label)
Window(d, step, col) ==
    [i \in 0 .. 5 |-> Norm(Loc(d, step + i)[col], MAX_SHARE_PRICE)]

\* lines 80-84 build the frame as a set display { ... } of the five windows;
\* the display raises TypeError at the first element that cannot be hashed,
\* so lines 88-97 (the account row and the return) are never reached
NextObservation(d, step) ==
    IF \E col \in Columns : ~Hashable(WindowType(col))
    THEN [raised |-> "TypeError"]
    ELSE [raised |-> "none",
          frame |-> {Window(d, step, col) : col \in Columns}]

-----------------------------------------------------------------------------
(* step, lines 100-116 *)

\* the wrap one row late: current_step > len(...) - 5
AdvanceLate(step, n) == IF step + 1 > n - 5 THEN 0 ELSE step + 1

\* lines 104-107
Advance(step, n) == IF step + 1 > n - 6 THEN 0 ELSE step + 1

\* lines 109-111
Reward(bal, step) == Mul(bal, Div(Num(step), Num(MAX_STEPS)))

\* the comparison turned around: done while the account is solvent
DoneInverted(nw) == Gt(nw, Zero)

\* line 112
Done(nw) == Le(nw, Zero)

-----------------------------------------------------------------------------
(* The state machine *)

\* after __init__ (lines 34-50): df is set, the account attributes are not
Init ==
    /\ df \in DataFrames
    /\ balance = Absent
    /\ net_worth = Absent
    /\ max_net_worth = Absent
    /\ shares_held = Absent
    /\ cost_basis = Absent
    /\ total_shares_sold = Absent
    /\ total_sales_value = Absent
    /\ current_step = 0 - 1
    /\ op = "init"
    /\ action = <<Absent, Absent>>
    /\ current_price = Absent
    /\ reward = Absent
    /\ done = FALSE
    /\ raised = "none"
    /\ steps = 0

\* the sales counters left out of the reset
ResetAccountKeepSales ==
    [balance |-> Num(INITIAL_ACCOUNT_BALANCE),
     net_worth |-> Num(INITIAL_ACCOUNT_BALANCE),
     max_net_worth |-> Num(INITIAL_ACCOUNT_BALANCE),
     shares_held |-> Zero,
     cost_basis |-> Zero,
     total_shares_sold |-> total_shares_sold,
     total_sales_value |-> total_sales_value]

\* lines 62-68
ResetAccount ==
    [balance |-> Num(INITIAL_ACCOUNT_BALANCE),
     net_worth |-> Num(INITIAL_ACCOUNT_BALANCE),
     max_net_worth |-> Num(INITIAL_ACCOUNT_BALANCE),
     shares_held |-> Zero,
     cost_basis |-> Zero,
     total_shares_sold |-> Zero,
     total_sales_value |-> Zero]

\* reset(), lines 53-75: the assignments, then _next_observation
Reset ==
    /\ balance' = ResetAccount.balance
    /\ net_worth' = ResetAccount.net_worth
    /\ max_net_worth' = ResetAccount.max_net_worth
    /\ shares_held' = ResetAccount.shares_held
    /\ cost_basis' = ResetAccount.cost_basis
    /\ total_shares_sold' = ResetAccount.total_shares_sold
    /\ total_sales_value' = ResetAccount.total_sales_value
    /\ \E cs \in 0 .. (NRows(df) - 6) :
        /\ current_step' = cs
        /\ raised' = NextObservation(df, cs).raised
    /\ op' = "reset"
    /\ steps' = 0
    /\ action' = <<Absent, Absent>>
    /\ current_price' = Absent
    /\ reward' = Absent
    /\ UNCHANGED <<df, done>>

\* step(a), lines 100-116, with _take_action, lines 118-149
Step(a) ==
    /\ op # "init"
    /\ steps < MaxEpisodeSteps
    /\ \E price \in Uniform(Loc(df, current_step).Open, Loc(df, current_step).Close) :
       \E b \in {Branch(a, price)} :
       \E nw \in {NetWorth(b.balance, b.shares_held, price)} :
       \E cs \in {Advance(current_step, NRows(df))} :
            /\ balance' = b.balance
            /\ shares_held' = b.shares_held
            /\ total_shares_sold' = b.total_shares_sold
            /\ total_sales_value' = b.total_sales_value
            /\ net_worth' = nw
            /\ max_net_worth' = MaxNetWorth(nw, max_net_worth)
            /\ cost_basis' = ResetCostBasis(b.shares_held, b.cost_basis)
            /\ current_step' = cs
            /\ reward' = Reward(b.balance, cs)
            /\ done' = Done(nw)
            /\ current_price' = price
            /\ raised' = NextObservation(df, cs).raised
    /\ action' = a
    /\ op' = "step"
    /\ steps' = steps + 1
    /\ UNCHANGED df

Next ==
    \/ Reset
    \/ \E a \in ActionSpace : Step(a)

Spec == Init /\ [][Next]_vars

\* the same environment driven by a caller that does not clip the amount
NextUnchecked ==
    \/ Reset
    \/ \E a \in UncheckedActions : Step(a)

SpecUnchecked == Init /\ [][NextUnchecked]_vars

-----------------------------------------------------------------------------
(* Properties *)

Initial == Num(INITIAL_ACCOUNT_BALANCE)

\* C1: after every step(), net_worth equals balance + shares_held * price,
\* with the balance and shares after the action and the price drawn in
\* that step.
C1_NetWorthIdentity ==
    op = "step" => net_worth = Add(balance, Mul(shares_held, current_price))

\* a step that bought: cash and shares both count in the net worth
C1_Witness ==
    /\ op = "step"
    /\ Lt(action[1], One)
    /\ Gt(balance, Zero)
    /\ Gt(shares_held, Zero)
    /\ net_worth # balance

\* C2: once reset, cost_basis is 0 whenever shares_held is 0.
C2_CostBasisZeroWithoutShares ==
    (op # "init" /\ shares_held = Zero) => cost_basis = Zero

\* a buy of zero shares with no shares held (the 0/0 of line 133), after a
\* sell of the whole position
C2_Witness ==
    /\ op = "step"
    /\ Lt(action[1], One)
    /\ action[2] = Zero
    /\ shares_held = Zero
    /\ Gt(total_shares_sold, Zero)
    /\ cost_basis = Zero

\* C3: no step() lowers max_net_worth.
C3_MaxNetWorthNonDecreasing ==
    [][op' = "step" => Ge(max_net_worth', max_net_worth)]_vars

\* a step that left the net worth below the maximum reached earlier in the
\* episode
C3_Witness ==
    /\ op = "step"
    /\ Lt(net_worth, max_net_worth)
    /\ Gt(max_net_worth, Initial)

\* C4: once reset, max_net_worth is at least INITIAL_ACCOUNT_BALANCE.
C4_MaxNetWorthAtLeastInitial ==
    op # "init" => Ge(max_net_worth, Initial)

\* a step that left the net worth below the initial balance
C4_Witness ==
    /\ op = "step"
    /\ Lt(net_worth, Initial)
    /\ max_net_worth = Initial

\* C5: a buy or a sell with amount 0 leaves balance and shares_held as they
\* were.
C5_ZeroAmountNoOp ==
    [][(op' = "step" /\ Lt(action'[1], Two) /\ action'[2] = Zero)
        => (balance' = balance /\ shares_held' = shares_held)]_vars

\* the first step after reset() is a buy with amount 0: no shares are held
\* and none are bought, so line 133 divides 0 by 0
C5_Witness ==
    /\ op = "step"
    /\ steps = 1
    /\ Lt(action[1], One)
    /\ action[2] = Zero
    /\ shares_held = Zero
    /\ balance = Initial

\* C6: a hold (action type >= 2, any amount) leaves balance, shares_held,
\* total_shares_sold and total_sales_value as they were, and cost_basis too
\* unless no shares are held.
C6_HoldFrame ==
    [][(op' = "step" /\ Ge(action'[1], Two))
        => /\ balance' = balance
           /\ shares_held' = shares_held
           /\ total_shares_sold' = total_shares_sold
           /\ total_sales_value' = total_sales_value
           /\ (cost_basis' = cost_basis \/ shares_held' = Zero)]_vars

\* a hold with a non-zero amount while shares and cash are held, at a price
\* that changed the net worth
C6_Witness ==
    /\ op = "step"
    /\ Ge(action[1], Two)
    /\ action[2] # Zero
    /\ Gt(shares_held, Zero)
    /\ Gt(balance, Zero)
    /\ net_worth # Initial

\* C7 as stated: a buy with amount f at price p > 0 from (balance b,
\* shares_held s, cost_basis c) gives balance b - f*b, shares_held
\* s + f*b/p and cost_basis (c*s + f*b) / (s + f*b/p), whatever s and f.
C7_BuyArithmeticAsStated ==
    [][(op' = "step" /\ Lt(action'[1], One) /\ Gt(current_price', Zero))
        => LET f == action'[2]
               p == current_price'
               spent == Mul(f, balance)
               bought == Div(spent, p)
               held == Add(shares_held, bought)
           IN  /\ balance' = Sub(balance, spent)
               /\ shares_held' = held
               /\ cost_basis' = Div(Add(Mul(cost_basis, shares_held), spent), held)]_vars

\* C7: a buy with amount f at price p > 0 from (balance b, shares_held s,
\* cost_basis c) gives balance b - f*b, shares_held s + f*b/p and
\* cost_basis (c*s + f*b) / (s + f*b/p) when s + f*b/p is not 0, and
\* cost_basis 0 when it is 0; from balance 10000 and no shares, f = 1 at
\* p = 100 gives 100 shares, balance 0 and cost_basis 100.
C7_BuyArithmetic ==
    [][(op' = "step" /\ Lt(action'[1], One) /\ Gt(current_price', Zero))
        => LET f == action'[2]
               p == current_price'
               spent == Mul(f, balance)
               bought == Div(spent, p)
               held == Add(shares_held, bought)
           IN  /\ balance' = Sub(balance, spent)
               /\ shares_held' = held
               /\ cost_basis' =
                     IF held = Zero THEN Zero
                     ELSE Div(Add(Mul(cost_basis, shares_held), spent), held)
               /\ (balance = Num(10000) /\ shares_held = Zero
                        /\ f = One /\ p = Num(100))
                     => (shares_held' = Num(100) /\ balance' = Zero
                            /\ cost_basis' = Num(100))]_vars

\* a buy that adds to shares bought earlier at another price: the cost
\* basis is a weighted average strictly between the two prices
C7_Witness ==
    /\ op = "step"
    /\ Lt(action[1], One)
    /\ Gt(action[2], Zero)
    /\ Gt(shares_held, Zero)
    /\ cost_basis # current_price
    /\ Gt(balance, Zero)

\* the example: the first step buys with the whole balance at price 100
C7_WitnessExample ==
    /\ op = "step"
    /\ steps = 1
    /\ action = <<Norm(1, 2), One>>
    /\ current_price = Num(100)
    /\ shares_held = Num(100)
    /\ balance = Zero
    /\ cost_basis = Num(100)

\* C8: a sell with amount f at price p from shares_held s sells f*s shares:
\* balance and total_sales_value grow by f*s*p, total_shares_sold by f*s,
\* shares_held becomes s - f*s, and cost_basis is 0 when no share is left.
C8_SellArithmetic ==
    [][(op' = "step" /\ Ge(action'[1], One) /\ Lt(action'[1], Two))
        => LET f == action'[2]
               p == current_price'
               sold == Mul(f, shares_held)
               value == Mul(sold, p)
           IN  /\ balance' = Add(balance, value)
               /\ total_sales_value' = Add(total_sales_value, value)
               /\ total_shares_sold' = Add(total_shares_sold, sold)
               /\ shares_held' = Sub(shares_held, sold)
               /\ shares_held' = Zero => cost_basis' = Zero]_vars

\* the example: 100 shares bought at 100 are all sold at 120
C8_Witness ==
    /\ op = "step"
    /\ steps = 2
    /\ action = <<Norm(3, 2), One>>
    /\ current_price = Num(120)
    /\ balance = Num(12000)
    /\ shares_held = Zero
    /\ cost_basis = Zero
    /\ total_shares_sold = Num(100)
    /\ total_sales_value = Num(12000)

\* C9: every step() returns a reward, and it is balance * (k / MAX_STEPS),
\* with the balance after the action and k the current_step after the
\* advance and wrap.
C9_RewardReturned ==
    op = "step" => /\ raised = "none"
                   /\ Mul(reward, Num(MAX_STEPS)) = Mul(balance, Num(current_step))

\* the value line 111 assigns to the local reward, which step() never gets to
\* return: balance * (k / MAX_STEPS)
ComputedReward ==
    op = "step" => Mul(reward, Num(MAX_STEPS)) = Mul(balance, Num(current_step))

\* a step that advanced to a row k > 0 with cash in the account
ComputedRewardPositive ==
    /\ op = "step"
    /\ current_step > 0
    /\ Gt(balance, Zero)
    /\ Gt(reward, Zero)

\* a step that wrapped current_step to 0: the reward is 0 whatever the balance
ComputedRewardWrap ==
    /\ op = "step"
    /\ current_step = 0
    /\ Gt(balance, Zero)
    /\ reward = Zero

\* C10: every step() returns a done flag, and it is true exactly when the
\* net_worth of that step is <= 0.
C10_DoneReturned ==
    op = "step" => /\ raised = "none"
                   /\ done <=> Le(net_worth, Zero)

\* the value line 112 assigns to the local done, which step() never gets to
\* return: net_worth <= 0
ComputedDone ==
    op = "step" => (done <=> Le(net_worth, Zero))

\* a step that ended in ruin (reached only with an amount above 1)
ComputedDoneRuin ==
    /\ op = "step"
    /\ done
    /\ Le(net_worth, Zero)

\* C11: once reset, 0 <= current_step <= N - 6 for a series of N >= 6 rows,
\* so rows current_step .. current_step + 5 exist; a step() advances
\* current_step by 1, or sets it to 0 when that would exceed N - 6.
C11_CurrentStepInRange ==
    [][/\ op' # "init" =>
            /\ NRows(df') >= 6
            /\ 0 <= current_step'
            /\ current_step' <= NRows(df') - 6
            /\ \A i \in 0 .. 5 : current_step' + i + 1 \in DOMAIN df'
       /\ op' = "step" =>
            current_step' = IF current_step + 1 > NRows(df) - 6
                            THEN 0 ELSE current_step + 1]_vars

\* a step from the last admissible row of the 8-row series wrapped to 0
C11_Witness ==
    /\ op = "step"
    /\ NRows(df) = 8
    /\ current_step = 0
    /\ current_price \in Uniform(Loc(df, 2).Open, Loc(df, 2).Close)
    /\ current_price \notin Uniform(Loc(df, 0).Open, Loc(df, 0).Close)

\* C12: reset() called in any state sets balance, net_worth and
\* max_net_worth to INITIAL_ACCOUNT_BALANCE and shares_held, cost_basis,
\* total_shares_sold and total_sales_value to 0.
C12_ResetRestoresAccount ==
    [][op' = "reset" =>
          /\ balance' = Initial
          /\ net_worth' = Initial
          /\ max_net_worth' = Initial
          /\ shares_held' = Zero
          /\ cost_basis' = Zero
          /\ total_shares_sold' = Zero
          /\ total_sales_value' = Zero]_vars

\* a reset() called after a step that had computed done = TRUE
C12_Witness ==
    /\ op = "reset"
    /\ done
    /\ balance = Initial
    /\ total_sales_value = Zero

\* a state with sales, a raised maximum and done = TRUE, in which reset()
\* is called next
C12_BeforeReset ==
    /\ op = "step"
    /\ done
    /\ Gt(total_sales_value, Zero)

\* C13: every reset() call completes and returns the initial observation.
C13_ResetReturns ==
    op = "reset" => raised = "none"

\* C14: every reset() and step() returns an observation, the scaled windows
\* of rows current_step .. current_step + 5 with the account row, and every
\* entry of it lies in [0, 1].
C14_ObservationInBounds ==
    op # "init" =>
        /\ raised = "none"
        /\ \A col \in Columns : \A i \in 0 .. 5 :
              /\ Le(Zero, Window(df, current_step, col)[i])
              /\ Le(Window(df, current_step, col)[i], One)

\* a window the observation is to hold has a volume above MAX_SHARE_PRICE,
\* which line 84 scales to a value above 1
ScaledVolumeAboveOne ==
    /\ op # "init"
    /\ \E i \in 0 .. 5 : Gt(Window(df, current_step, "Volume")[i], One)

\* C15: exactly one branch runs in a step(): action types below 1 buy
\* (shares are added and paid for, nothing is sold), types from 1 to below 2
\* sell (1 itself sells), and types from 2 on, 2 and 3 included, hold.
C15_Dispatch ==
    [][op' = "step" =>
        LET t == action'[1]
            f == action'[2]
        IN  /\ Lt(t, One) =>
                /\ total_shares_sold' = total_shares_sold
                /\ total_sales_value' = total_sales_value
                /\ Ge(shares_held', shares_held)
                /\ Le(balance', balance)
                /\ (Gt(f, Zero) /\ Gt(balance, Zero)) =>
                      (Gt(shares_held', shares_held) /\ Lt(balance', balance))
            /\ (Ge(t, One) /\ Lt(t, Two)) =>
                /\ Le(shares_held', shares_held)
                /\ Ge(balance', balance)
                /\ (Gt(f, Zero) /\ Gt(shares_held, Zero)) =>
                      /\ Lt(shares_held', shares_held)
                      /\ Gt(balance', balance)
                      /\ Gt(total_shares_sold', total_shares_sold)
            /\ Ge(t, Two) =>
                /\ balance' = balance
                /\ shares_held' = shares_held
                /\ total_shares_sold' = total_shares_sold
                /\ total_sales_value' = total_sales_value]_vars

\* an action type of exactly 1 sold the whole position bought the step before
C15_Witness ==
    /\ op = "step"
    /\ steps = 2
    /\ action = <<One, One>>
    /\ shares_held = Zero
    /\ Gt(total_shares_sold, Zero)
    /\ Gt(balance, Zero)

\* action types of exactly 2 and of 3, with a non-zero amount, held
C15_WitnessHoldAtTwo ==
    /\ op = "step"
    /\ action = <<Two, One>>
    /\ Gt(shares_held, Zero)
    /\ Gt(balance, Zero)

C15_WitnessHoldAtThree ==
    /\ op = "step"
    /\ action = <<Num(3), One>>
    /\ Gt(shares_held, Zero)
    /\ Gt(balance, Zero)

\* C16: once reset, a step() is never refused, also after a step whose done
\* was TRUE: it completes, and it applies the same transition rules.
C16_StepCompletes ==
    [][(op # "init" /\ op' = "step") =>
          /\ raised' = "none"
          /\ net_worth' = Add(balance, Mul(shares_held, current_price'))
          /\ done' <=> Le(net_worth', Zero)]_vars

\* what does hold of a step() taken after a step whose done was TRUE: the
\* account is updated by the same rules; the call then raises like any other
StepAfterDoneSameRules ==
    [][(op = "step" /\ done /\ op' = "step") =>
          /\ net_worth' = Add(balance, Mul(shares_held, current_price'))
          /\ Ge(max_net_worth', max_net_worth)
          /\ done' <=> Le(net_worth', Zero)
          /\ raised' = raised]_vars

\* no step() follows a step whose done was TRUE (violated: done refuses
\* nothing)
NoStepAfterDone ==
    [][~(op = "step" /\ done /\ op' = "step")]_vars

\* C17: a step() that wraps current_step to 0 does not reset the account:
\* the net worth is carried through the wrap at the step's price, the
\* maximum and the sales counters do not fall back, a hold leaves balance
\* and shares as they were, and done is not set by the wrap.
C17_WrapKeepsAccount ==
    [][(op' = "step" /\ current_step + 1 > NRows(df) - 6) =>
          /\ current_step' = 0
          /\ net_worth' = Add(balance, Mul(shares_held, current_price'))
          /\ net_worth' = Add(balance', Mul(shares_held', current_price'))
          /\ Ge(max_net_worth', max_net_worth)
          /\ Ge(total_shares_sold', total_shares_sold)
          /\ Ge(total_sales_value', total_sales_value)
          /\ Ge(action'[1], Two) =>
                (balance' = balance /\ shares_held' = shares_held
                    /\ cost_basis' = cost_basis)
          /\ done' <=> Le(net_worth', Zero)
          /\ ~done']_vars

\* in the 6-row series every step wraps: a second step after a wrap, with
\* shares held and a balance that is not the initial one
C17_Witness ==
    /\ op = "step"
    /\ NRows(df) = 6
    /\ steps = 2
    /\ current_step = 0
    /\ Gt(shares_held, Zero)
    /\ balance # Initial
    /\ Gt(max_net_worth, Initial)
    /\ ~done

C19_TradeNetWorthNeutral ==
    [][(op' = "step" /\ Lt(action'[1], Two)) =>
          net_worth' = Add(balance, Mul(shares_held, current_price'))]_vars

\* a trade with a non-zero amount that moved cash and shares, at a price that
\* changed the net worth
C19_Witness ==
    /\ op = "step"
    /\ Lt(action[1], Two)
    /\ Gt(action[2], Zero)
    /\ Gt(shares_held, Zero)
    /\ Gt(balance, Zero)
    /\ balance # Initial
    /\ net_worth # Initial

\* C20: with a positive initial balance, positive open and close prices and
\* amounts in [0, 1], net_worth > 0 in every state after a reset(), and no
\* step() sets done.
C20_NeverRuined ==
    op # "init" => (Gt(net_worth, Zero) /\ ~done)

\* the whole balance was spent on shares and the price fell: the net worth
\* is below the initial balance, and done is FALSE
C20_Witness ==
    /\ op = "step"
    /\ balance = Zero
    /\ Lt(net_worth, Initial)
    /\ ~done

====
